---- MODULE Spec2Model ----
(***************************************************************************)
(* A model of the deep-zoom (DZI) pyramid generator of src/n.py and of the *)
(* diagnostic of src/diganosis.py.                                         *)
(*                                                                         *)
(* DZIGenerator.generate is modelled step by step (open, mode conversion,  *)
(* level planning, directory creation, one step per level and per tile,    *)
(* descriptor, return) over a file system that outlives a run, so that the *)
(* order of writes inside a run and the leftovers of earlier runs are      *)
(* both visible.  compare_dimensions is modelled as diagnose_dzi,          *)
(* check_original_image and the comparison, over the inputs found on disk. *)
(*                                                                         *)
(* Pillow is outside the repository; what the model assumes about it:      *)
(*   - Image.open only identifies the file (size, mode); the pixel data is *)
(*     decoded at the first operation that needs it (convert, split,       *)
(*     resize, crop), and a file whose header is sound and whose data is   *)
(*     not fails there, not at Image.open;                                 *)
(*   - whether resize to a target with a zero side raises depends on the   *)
(*     Pillow build: both outcomes are kept;                               *)
(*   - math.log2 and "/" are exact on the small integers of the model      *)
(*     (they are floating point in the code).                              *)
(***************************************************************************)
EXTENDS Integers, FiniteSets, Sequences, TLC

\* ------------------------------------------------------------------ bounds
\* Source images of a single run are 0..MaxDim pixels a side (0: a degenerate
\* image), tile sizes -1..MaxTileSize, overlaps 0..MaxOverlap.
MaxDim == 4
MaxTileSize == 3
MaxOverlap == 2
\* Repeated runs into one output name: up to MaxRuns runs, of sources of
\* 1..MaxRerunDim pixels a side, tile sizes 1..MaxRerunTileSize and overlaps
\* 0..MaxRerunOverlap (valid geometry only).
MaxRuns == 2
MaxRerunDim == 3
MaxRerunTileSize == 2
MaxRerunOverlap == 1
\* The diagnostic: sizes up to MaxCmpDim a side, up to MaxCmpLevels level directories.
MaxCmpDim == 3
MaxCmpLevels == 2

VARIABLES
    fsTilesDir,     \* does "{output_name}_files" exist
    fsLevelDirs,    \* the level directories under it
    fsTiles,        \* the tile files, <<level, col, row>>
    fsDzi,          \* the descriptor file "{output_name}.dzi": its content, or absent
    source,         \* the file at image_path, as the run finds it
    self,           \* the DZIGenerator object: tile_size, overlap, max_level
    img,            \* generate's local img: width, height, mode
    loaded,         \* has the pixel data of img been decoded yet
    pc,             \* where generate is
    level,          \* the loop variable of generate's for loop
    lvl,            \* _generate_level's locals: level_width, level_height, cols, rows
    row, col,       \* the loop variables of _generate_level
    crop,           \* the last _save_tile call: its tile and its clamped rectangle
    runLevels,      \* the levels this run planned: [level, width, height]
    runTiles,       \* the tiles this run wrote
    runDzi,         \* how many times this run wrote the descriptor
    result,         \* what generate returned: "none", "True", "False", "raised"
    error,          \* why it failed
    runs,           \* runs started so far
    cin,            \* compare_dimensions: what is on disk
    cpc,            \* where compare_dimensions is
    dzi_dims,       \* diagnose_dzi's return value
    orig_dims,      \* check_original_image's return value
    verdict,        \* the verdict printed: "none", "match", "mismatch"
    coverage,       \* the percentage printed, in tenths of a percent
    craised         \* the exception compare_dimensions ended with, or "none"

genVars == <<fsTilesDir, fsLevelDirs, fsTiles, fsDzi, source, self, img, loaded,
             pc, level, lvl, row, col, crop, runLevels, runTiles, runDzi,
             result, error, runs>>
cmpVars == <<cin, cpc, dzi_dims, orig_dims, verdict, coverage, craised>>
vars == <<genVars, cmpVars>>

\* ------------------------------------------------------------ arithmetic
RECURSIVE FloorLog2(_)
FloorLog2(x) == IF x <= 1 THEN 0 ELSE 1 + FloorLog2(x \div 2)

\* A slip in the rounding: math.floor for math.ceil.
CeilLog2AsFloor(x) == FloorLog2(x)

\* math.ceil(math.log2(x)) for x >= 1: the integer part of the logarithm, one
\* more unless x is a power of two.
CeilLog2(x) ==
    IF 2 ^ FloorLog2(x) = x THEN FloorLog2(x) ELSE FloorLog2(x) + 1

\* math.ceil(a / b) for a >= 0 and b # 0 (b may be negative: a tile size is
\* never validated).
PyCeilDiv(a, b) ==
    IF b > 0 THEN (a + b - 1) \div b ELSE 0 - (a \div (0 - b))

Max(a, b) == IF a >= b THEN a ELSE b
Min(a, b) == IF a <= b THEN a ELSE b

\* -------------------------------------------------------------- geometry
\* generate, line 64-65.
MaxLevelOf(w, h) == CeilLog2(Max(w, h))

\* _generate_level, lines 101-103.
ScaleFactor(maxLevel, l) == 2 ^ (maxLevel - l)
LevelWidth(w, maxLevel, l) == PyCeilDiv(w, ScaleFactor(maxLevel, l))
LevelHeight(h, maxLevel, l) == PyCeilDiv(h, ScaleFactor(maxLevel, l))

\* A slip in the grid: "//" for math.ceil, which drops the last partial column.
ColsFloor(lw, ts) == lw \div ts

\* _generate_level, lines 118-119.
Cols(lw, ts) == PyCeilDiv(lw, ts)
Rows(lh, ts) == PyCeilDiv(lh, ts)

\* _save_tile, lines 152-169: <<x1, y1, x2, y2>> after clamping.
CropX1(c, ts, ov) == Max(0, c * ts - ov)
CropY1(r, ts, ov) == Max(0, r * ts - ov)
\* A slip in the clamp: the right edge left as computed.
CropX2Unclamped(c, ts, ov, lw) == c * ts + ts + ov
CropX2(c, ts, ov, lw) == Min(lw, c * ts + ts + ov)
CropY2(r, ts, ov, lh) == Min(lh, r * ts + ts + ov)
CropBox(c, r, lw, lh, ts, ov) ==
    <<CropX1(c, ts, ov), CropY1(r, ts, ov), CropX2(c, ts, ov, lw), CropY2(r, ts, ov, lh)>>

\* ---------------------------------------------------------------- inputs
Modes == {"RGB", "RGBA", "L", "CMYK"}

NoImage == [width |-> 0, height |-> 0, mode |-> "none"]
NoLevel == [level_width |-> 0, level_height |-> 0, cols |-> 0, rows |-> 0]
NoCrop == [level |-> 0 - 1, col |-> 0, row |-> 0, box |-> <<0, 0, 0, 0>>]
NoDzi == [present |-> FALSE, Width |-> 0, Height |-> 0, TileSize |-> 0, Overlap |-> 0]
NoSource == [openable |-> FALSE, width |-> 0, height |-> 0, mode |-> "none"]
NoSelf == [tile_size |-> 0, overlap |-> 0, max_level |-> 0]

Unreadable == {NoSource}
Sources(dims) ==
    Unreadable \cup [openable : {TRUE}, width : dims, height : dims, mode : Modes]

Config(src, ts, ov) == [source |-> src, tile_size |-> ts, overlap |-> ov]

\* Scenario A and B of the specification, section 8.
ScenarioConfigs ==
    { Config([openable |-> TRUE, width |-> 256, height |-> 256, mode |-> "RGB"], 256, 0),
      Config([openable |-> TRUE, width |-> 300, height |-> 200, mode |-> "RGB"], 256, 1) }

RunConfigs ==
    { Config(s, ts, ov) : s \in Sources(0..MaxDim), ts \in (0 - 1)..MaxTileSize,
                          ov \in 0..MaxOverlap }
    \cup ScenarioConfigs

RerunConfigs ==
    { Config(s, ts, ov) : s \in Sources(1..MaxRerunDim), ts \in 1..MaxRerunTileSize,
                          ov \in 0..MaxRerunOverlap }

\* ----------------------------------------------------------------- state
GenInit ==
    /\ fsTilesDir = FALSE
    /\ fsLevelDirs = {}
    /\ fsTiles = {}
    /\ fsDzi = NoDzi
    /\ source = NoSource
    /\ self = NoSelf
    /\ img = NoImage
    /\ loaded = FALSE
    /\ pc = "idle"
    /\ level = 0
    /\ lvl = NoLevel
    /\ row = 0
    /\ col = 0
    /\ crop = NoCrop
    /\ runLevels = {}
    /\ runTiles = {}
    /\ runDzi = 0
    /\ result = "none"
    /\ error = "none"
    /\ runs = 0

fsVars == <<fsTilesDir, fsLevelDirs, fsTiles, fsDzi>>
loopVars == <<level, lvl, row, col, crop>>
runLog == <<runLevels, runTiles, runDzi>>

\* An uncaught exception leaves generate: nothing is cleaned up.
Raise(why) ==
    /\ pc' = "done"
    /\ result' = "raised"
    /\ error' = why

\* DZIGenerator(...) followed by generate() up to Image.open.
New(cfg) ==
    /\ source' = cfg.source
    /\ self' = [tile_size |-> cfg.tile_size, overlap |-> cfg.overlap, max_level |-> 0]
    /\ img' = NoImage
    /\ loaded' = FALSE
    /\ pc' = "open"
    /\ level' = 0
    /\ lvl' = NoLevel
    /\ row' = 0
    /\ col' = 0
    /\ crop' = NoCrop
    /\ runLevels' = {}
    /\ runTiles' = {}
    /\ runDzi' = 0
    /\ result' = "none"
    /\ error' = "none"
    /\ runs' = runs + 1
    /\ UNCHANGED <<fsVars, cmpVars>>

\* generate, lines 38-44.
OpenImage ==
    /\ pc = "open"
    /\ IF source.openable
         THEN /\ img' = [width |-> source.width, height |-> source.height,
                         mode |-> source.mode]
              /\ pc' = "normalize"
              /\ UNCHANGED <<result, error>>
         ELSE /\ pc' = "done"
              /\ result' = "False"
              /\ error' = "open"
              /\ UNCHANGED img
    /\ UNCHANGED <<fsVars, source, self, loaded, loopVars, runLog, runs, cmpVars>>

\* generate, lines 51-58: convert and split read the pixels.
Normalize ==
    /\ pc = "normalize"
    /\ \/ /\ img.mode \in {"RGB", "L"}
          /\ pc' = "plan"
          /\ UNCHANGED <<img, loaded, result, error>>
       \/ /\ img.mode \notin {"RGB", "L"}
          /\ img' = [img EXCEPT !.mode = "RGB"]
          /\ loaded' = TRUE
          /\ pc' = "plan"
          /\ UNCHANGED <<result, error>>
       \/ /\ img.mode \notin {"RGB", "L"}
          /\ Raise("decode")
          /\ UNCHANGED <<img, loaded>>
    /\ UNCHANGED <<fsVars, source, self, loopVars, runLog, runs, cmpVars>>

\* generate, lines 64-65: math.log2 raises on 0.
Plan ==
    /\ pc = "plan"
    /\ IF Max(img.width, img.height) <= 0
         THEN /\ Raise("log2")
              /\ UNCHANGED self
         ELSE /\ self' = [self EXCEPT !.max_level = MaxLevelOf(img.width, img.height)]
              /\ pc' = "mkdir"
              /\ UNCHANGED <<result, error>>
    /\ UNCHANGED <<fsVars, source, img, loaded, loopVars, runLog, runs, cmpVars>>

\* generate, line 73.
MakeTilesDir ==
    /\ pc = "mkdir"
    /\ fsTilesDir' = TRUE
    /\ pc' = "level"
    /\ level' = 0
    /\ UNCHANGED <<fsLevelDirs, fsTiles, fsDzi, source, self, img, loaded, lvl, row,
                   col, crop, runLog, result, error, runs, cmpVars>>

\* A slip in the loop bound: range(self.max_level), which stops one level early.
LevelsDoneEarly == level >= self.max_level

\* for level in range(self.max_level + 1), line 78: is the loop exhausted.
LevelsDone == level > self.max_level

\* generate, lines 78-79, and _generate_level up to its tile loop, lines 99-126.
\* resize reads the pixels of the original image; cols and rows divide by
\* tile_size.
GenerateLevel ==
    /\ pc = "level"
    /\ ~LevelsDone
    /\ LET lw == LevelWidth(img.width, self.max_level, level)
           lh == LevelHeight(img.height, self.max_level, level)
           resized == level # self.max_level
       IN  \/ /\ resized
              /\ ~loaded
              /\ Raise("decode")
              /\ UNCHANGED <<fsLevelDirs, loaded, lvl, row, col, runLevels>>
           \/ /\ resized
              /\ lw = 0 \/ lh = 0
              /\ Raise("resize")
              /\ loaded' = TRUE
              /\ UNCHANGED <<fsLevelDirs, lvl, row, col, runLevels>>
           \/ /\ self.tile_size = 0
              /\ Raise("zerodiv")
              /\ loaded' = (loaded \/ resized)
              /\ UNCHANGED <<fsLevelDirs, lvl, row, col, runLevels>>
           \/ /\ self.tile_size # 0
              /\ lvl' = [level_width |-> lw, level_height |-> lh,
                         cols |-> Cols(lw, self.tile_size),
                         rows |-> Rows(lh, self.tile_size)]
              /\ fsLevelDirs' = fsLevelDirs \cup {level}
              /\ runLevels' = runLevels \cup
                                {[level |-> level, width |-> lw, height |-> lh]}
              /\ loaded' = (loaded \/ resized)
              /\ row' = 0
              /\ col' = 0
              /\ pc' = "tile"
              /\ UNCHANGED <<result, error>>
    /\ UNCHANGED <<fsTilesDir, fsTiles, fsDzi, source, self, img, level, crop,
                   runTiles, runDzi, runs, cmpVars>>

\* for row in range(rows): for col in range(cols): is there a tile left.
MoreTiles == lvl.cols > 0 /\ row < lvl.rows

\* The loop variables after the tile (col, row).
NextCol == IF col + 1 < lvl.cols THEN col + 1 ELSE 0
NextRow == IF col + 1 < lvl.cols THEN row ELSE row + 1

\* _save_tile, lines 152-186, for the tile (col, row) of the current level.
\* img.crop reads the pixels; tile.save may fail (encoder, disk), and a failed
\* save may or may not leave a file behind.
SaveTile ==
    /\ pc = "tile"
    /\ MoreTiles
    /\ crop' = [level |-> level, col |-> col, row |-> row,
                box |-> CropBox(col, row, lvl.level_width, lvl.level_height,
                                self.tile_size, self.overlap)]
    /\ \/ /\ ~loaded
          /\ Raise("decode")
          /\ UNCHANGED <<fsTiles, loaded, row, col, runTiles>>
       \/ /\ Raise("tile")
          /\ loaded' = TRUE
          /\ UNCHANGED <<fsTiles, row, col, runTiles>>
       \/ /\ Raise("tile")
          /\ loaded' = TRUE
          /\ fsTiles' = fsTiles \cup {<<level, col, row>>}
          /\ UNCHANGED <<row, col, runTiles>>
       \/ /\ fsTiles' = fsTiles \cup {<<level, col, row>>}
          /\ runTiles' = runTiles \cup {<<level, col, row>>}
          /\ loaded' = TRUE
          /\ row' = NextRow
          /\ col' = NextCol
          /\ UNCHANGED <<pc, result, error>>
    /\ UNCHANGED <<fsTilesDir, fsLevelDirs, fsDzi, source, self, img, level, lvl,
                   runLevels, runDzi, runs, cmpVars>>

\* _generate_level returns, line 145; generate's loop goes on, line 78.
EndLevel ==
    /\ pc = "tile"
    /\ ~MoreTiles
    /\ level' = level + 1
    /\ pc' = "level"
    /\ UNCHANGED <<fsVars, source, self, img, loaded, lvl, row, col, crop, runLog,
                   result, error, runs, cmpVars>>

\* The text _create_dzi_descriptor writes, lines 196-205 (Format is fixed).
Descriptor(w, h, ts, ov) ==
    [present |-> TRUE, Width |-> w, Height |-> h, TileSize |-> ts, Overlap |-> ov]

\* generate, line 83, and _create_dzi_descriptor, lines 188-210.
CreateDescriptor ==
    /\ pc = "level"
    /\ LevelsDone
    /\ fsDzi' = Descriptor(img.width, img.height, self.tile_size, self.overlap)
    /\ runDzi' = runDzi + 1
    /\ pc' = "return"
    /\ UNCHANGED <<fsTilesDir, fsLevelDirs, fsTiles, source, self, img, loaded,
                   loopVars, runLevels, runTiles, result, error, runs, cmpVars>>

\* generate, line 94.
ReturnTrue ==
    /\ pc = "return"
    /\ result' = "True"
    /\ pc' = "done"
    /\ UNCHANGED <<fsVars, source, self, img, loaded, loopVars, runLog, error, runs,
                   cmpVars>>

Steps ==
    \/ OpenImage
    \/ Normalize
    \/ Plan
    \/ MakeTilesDir
    \/ GenerateLevel
    \/ SaveTile
    \/ EndLevel
    \/ CreateDescriptor
    \/ ReturnTrue

\* One run of generate into an empty output location.
Generate == \E cfg \in RunConfigs : pc = "idle" /\ New(cfg)

\* Run after run into the same output name, each with its own generator.
Regenerate ==
    \E cfg \in RerunConfigs : pc \in {"idle", "done"} /\ runs < MaxRuns /\ New(cfg)

\* ------------------------------------------------- the diagnostic's inputs
\* The descriptor file: missing, unparsable (ET.parse fails, no Size element,
\* an attribute that is no integer), or declaring Width x Height.
DziFiles(dims) ==
    { [state |-> "missing", Width |-> 0, Height |-> 0],
      [state |-> "malformed", Width |-> 0, Height |-> 0] }
    \cup [state : {"parsed"}, Width : dims, Height : dims]

\* The tiles folder beside it: missing, or holding nLevels level directories
\* (named by integers), possibly a directory with another name, and in the
\* highest level a first file that opens, one that does not, or none.
TilesFolders(maxLevels) ==
    { [exists |-> FALSE, nLevels |-> 0, otherDir |-> FALSE, sample |-> "none"] }
    \cup [exists : {TRUE}, nLevels : 0..maxLevels, otherDir : BOOLEAN,
          sample : {"none", "ok", "bad"}]

\* The reference image: missing, present and unreadable, or width x height.
RefImages(dims) ==
    { [state |-> "missing", width |-> 0, height |-> 0],
      [state |-> "unreadable", width |-> 0, height |-> 0] }
    \cup [state : {"readable"}, width : dims, height : dims]

CompareInput(d, t, r) == [dzi |-> d, tiles |-> t, ref |-> r]

\* Scenario C of the specification, section 8.
ScenarioCDzi == [state |-> "parsed", Width |-> 1000, Height |-> 1000]
ScenarioCRef == [state |-> "readable", width |-> 2000, height |-> 2000]

CompareInputs ==
    { CompareInput(d, t, r) :
        d \in DziFiles(1..MaxCmpDim) \cup {ScenarioCDzi},
        t \in TilesFolders(MaxCmpLevels),
        r \in RefImages(1..MaxCmpDim) \cup {ScenarioCRef} }

\* Python values: None, a pair of integers, and the pair (None, None).
PyNone == [tag |-> "None", w |-> 0, h |-> 0]
PyPair(w, h) == [tag |-> "pair", w |-> w, h |-> h]
PyNonePair == [tag |-> "NonePair", w |-> 0, h |-> 0]

\* bool(v): None is false, every pair is true, whatever it holds.
Truthy(v) == v.tag # "None"

NoInput ==
    CompareInput([state |-> "missing", Width |-> 0, Height |-> 0],
                 [exists |-> FALSE, nLevels |-> 0, otherDir |-> FALSE, sample |-> "none"],
                 [state |-> "missing", width |-> 0, height |-> 0])

CmpIdle ==
    /\ cin = NoInput
    /\ cpc = "off"
    /\ dzi_dims = PyNone
    /\ orig_dims = PyNone
    /\ verdict = "none"
    /\ coverage = 0
    /\ craised = "none"

\* compare_dimensions(dzi_file, original_image) is called.
Compare ==
    /\ cpc = "off"
    /\ cin' \in CompareInputs
    /\ cpc' = "diagnose"
    /\ UNCHANGED <<genVars, dzi_dims, orig_dims, verdict, coverage, craised>>

\* What diagnose_dzi does on the input, lines 13-87: "return" with its value,
\* or "raise" with the exception that leaves it.
\*   line 58: sort(key=int) calls int on every directory name;
\*   line 72: levels[-1] on the sorted list.
DiagnoseOutcome(i) ==
    IF i.dzi.state = "missing" THEN [how |-> "return", value |-> PyNone, exc |-> "none"]
    ELSE IF i.dzi.state = "malformed"
        THEN [how |-> "return", value |-> PyNone, exc |-> "none"]
    ELSE IF ~i.tiles.exists THEN [how |-> "return", value |-> PyNone, exc |-> "none"]
    ELSE IF i.tiles.otherDir THEN [how |-> "raise", value |-> PyNone, exc |-> "ValueError"]
    ELSE IF i.tiles.nLevels = 0
        THEN [how |-> "raise", value |-> PyNone, exc |-> "IndexError"]
    ELSE [how |-> "return", value |-> PyPair(i.dzi.Width, i.dzi.Height), exc |-> "none"]

\* compare_dimensions, line 133.
DiagnoseDzi ==
    /\ cpc = "diagnose"
    /\ LET out == DiagnoseOutcome(cin)
       IN  IF out.how = "raise"
             THEN /\ craised' = out.exc
                  /\ cpc' = "done"
                  /\ UNCHANGED dzi_dims
             ELSE /\ dzi_dims' = out.value
                  /\ cpc' = "check"
                  /\ UNCHANGED craised
    /\ UNCHANGED <<genVars, cin, orig_dims, verdict, coverage>>

\* check_original_image, lines 97-127: None, (width, height), or (None, None).
OriginalDims(r) ==
    IF r.state = "missing" THEN PyNone
    ELSE IF r.state = "readable" THEN PyPair(r.width, r.height)
    ELSE PyNonePair

\* compare_dimensions, line 134.
CheckOriginalImage ==
    /\ cpc = "check"
    /\ orig_dims' = OriginalDims(cin.ref)
    /\ cpc' = "compare"
    /\ UNCHANGED <<genVars, cin, dzi_dims, verdict, coverage, craised>>

\* line 144: an integer never equals None.
SameDims(d, o) == o.tag = "pair" /\ d.w = o.w /\ d.h = o.h

\* f"{a / b * 100:.1f}" in tenths of a percent: the nearest tenth; on an exact
\* tie the floating-point value decides, either neighbour is possible.
PercentTenths(a, b) ==
    LET q == (1000 * a) \div b
        r == (1000 * a) % b
    IN  IF 2 * r < b THEN {q} ELSE IF 2 * r > b THEN {q + 1} ELSE {q, q + 1}

\* compare_dimensions, lines 136-152.  The mismatch verdict is printed (lines
\* 148-150) before line 151 computes the percentage.
Verdict ==
    /\ cpc = "compare"
    /\ cpc' = "done"
    /\ IF ~(Truthy(dzi_dims) /\ Truthy(orig_dims))
         THEN UNCHANGED <<verdict, coverage, craised>>
       ELSE IF SameDims(dzi_dims, orig_dims)
         THEN /\ verdict' = "match"
              /\ UNCHANGED <<coverage, craised>>
       ELSE IF orig_dims.tag = "NonePair"
         THEN /\ verdict' = "mismatch"
              /\ craised' = "TypeError"
              /\ UNCHANGED coverage
       ELSE IF orig_dims.w * orig_dims.h = 0
         THEN /\ verdict' = "mismatch"
              /\ craised' = "ZeroDivisionError"
              /\ UNCHANGED coverage
       ELSE /\ verdict' = "mismatch"
            /\ coverage' \in PercentTenths(dzi_dims.w * dzi_dims.h,
                                           orig_dims.w * orig_dims.h)
            /\ UNCHANGED craised
    /\ UNCHANGED <<genVars, cin, dzi_dims, orig_dims>>

Init == GenInit /\ CmpIdle
Next == Generate \/ Steps
Spec == Init /\ [][Next]_vars

NextRerun == Regenerate \/ Steps
SpecRerun == Init /\ [][NextRerun]_vars

NextCompare == Compare \/ DiagnoseDzi \/ CheckOriginalImage \/ Verdict
SpecCompare == Init /\ [][NextCompare]_vars

\* ================================================================ claims
\* What a run leaves on disk: nothing at all.
NoOutput ==
    /\ ~fsTilesDir
    /\ fsLevelDirs = {}
    /\ fsTiles = {}
    /\ ~fsDzi.present

\* The grid of level l of the current run, as _generate_level plans it.
GridOf(l) ==
    LET lw == LevelWidth(img.width, self.max_level, l)
        lh == LevelHeight(img.height, self.max_level, l)
    IN  { <<l, c, r>> : c \in 0..(Cols(lw, self.tile_size) - 1),
                        r \in 0..(Rows(lh, self.tile_size) - 1) }

\* Every tile of every level 0..max_level of the current run.
TilesDue == UNION { GridOf(l) : l \in 0..self.max_level }

\* C1: in a run of generate the descriptor is written at most once, and when
\* it has been written every tile of every level 0..max_level has been written
\* by this run, their grid being defined (tile_size is not 0).  The run starts
\* on an empty output location, so a descriptor on disk is this run's.
C1_DescriptorAfterAllTiles ==
    /\ runDzi <= 1
    /\ fsDzi.present => runDzi = 1
    /\ runDzi = 1 => (self.tile_size # 0 /\ TilesDue \subseteq runTiles)

\* C1's case: a finished run that wrote several tiles and then the descriptor.
C1_Witness ==
    /\ result = "True"
    /\ runDzi = 1
    /\ Cardinality(runTiles) >= 5

\* C3: a run with tile_size <= 0, or a source whose width or height is <= 0,
\* creates no tiles directory, no level directory, no tile and no descriptor,
\* and never returns True.
C3_InvalidGeometryRejected ==
    (/\ source.openable
     /\ self.tile_size <= 0 \/ source.width <= 0 \/ source.height <= 0)
    => (NoOutput /\ result # "True")

\* n is the least natural number with 2^n >= m.
IsCeilLog2(n, m) == 2 ^ n >= m /\ (n = 0 \/ 2 ^ (n - 1) < m)

\* k is a divided by d, rounded up.
IsCeilQuotient(k, a, d) == k * d >= a /\ (k - 1) * d < a

\* C5: for a source of w x h pixels, w, h >= 1, max_level is the least n with
\* 2^n >= max(w, h); every level L the run plans is ceil(w / 2^(max_level-L))
\* by ceil(h / 2^(max_level-L)), the level max_level is w by h exactly, and a
\* run that returns True has planned exactly the levels 0..max_level.
C5_LevelPlan ==
    (img.width >= 1 /\ img.height >= 1) =>
        /\ (pc \in {"mkdir", "level", "tile", "return"} \/ result = "True")
              => IsCeilLog2(self.max_level, Max(img.width, img.height))
        /\ \A p \in runLevels :
              /\ p.level \in 0..self.max_level
              /\ IsCeilQuotient(p.width, img.width, 2 ^ (self.max_level - p.level))
              /\ IsCeilQuotient(p.height, img.height, 2 ^ (self.max_level - p.level))
              /\ p.level = self.max_level
                    => (p.width = img.width /\ p.height = img.height)
        /\ result = "True" => { p.level : p \in runLevels } = 0..self.max_level

\* C5's case: a finished run on a 3 x 4 source (not a power of two: 3 levels).
C5_Witness ==
    /\ result = "True"
    /\ img.width = 3
    /\ img.height = 4
    /\ Cardinality(runLevels) = 3
    /\ Cardinality(runTiles) >= 3

ScenarioB ==
    /\ img.width = 300
    /\ img.height = 200
    /\ self.tile_size = 256
    /\ self.overlap = 1

\* C6: the clamped crop rectangle of every _save_tile call lies inside its
\* level: left and top >= 0, right <= level_width, bottom <= level_height; for
\* the 300 x 200 source with tile_size 256 and overlap 1 the top level's grid
\* is 2 x 1 and the right edge of tile (1, 0) is 300.
C6_CropWithinLevel ==
    /\ \A p \in runLevels :
          p.level = crop.level =>
              /\ crop.box[1] >= 0
              /\ crop.box[2] >= 0
              /\ crop.box[3] <= p.width
              /\ crop.box[4] <= p.height
    /\ (ScenarioB /\ crop.level = self.max_level)
          => /\ lvl.cols = 2
             /\ lvl.rows = 1
             /\ (crop.col = 1 /\ crop.row = 0) => crop.box[3] = 300

\* C6's case: the last tile of the top level of the 300 x 200 source.
C6_Witness ==
    /\ ScenarioB
    /\ crop.level = self.max_level
    /\ crop.col = lvl.cols - 1
    /\ crop.row = lvl.rows - 1
    /\ crop.col = 1
    /\ crop.box[3] = 300
    /\ <<crop.level, crop.col, crop.row>> \in runTiles

\* C8: a run (with a tile size >= 1) whose source cannot be opened, or can be
\* opened as an image of at least 1 x 1 pixels and not decoded, ends with
\* nothing created: no tiles directory, no level directory, no tile, no
\* descriptor.
C8_UnreadableSourceNoOutput ==
    (/\ pc = "done"
     /\ error \in {"open", "decode"}
     /\ self.tile_size >= 1
     /\ source.openable => (source.width >= 1 /\ source.height >= 1))
    => NoOutput

\* The content region of tile t = <<l, c, r>> in a level lw x lh.
InContent(t, x, y, lw, lh) ==
    /\ t[2] * self.tile_size <= x
    /\ x < Min((t[2] + 1) * self.tile_size, lw)
    /\ t[3] * self.tile_size <= y
    /\ y < Min((t[3] + 1) * self.tile_size, lh)

\* C10: with w, h >= 1 and tile_size >= 1, the clamped rectangle of every
\* _save_tile call is non-empty and contains the tile's content region, and
\* when a level's loop ends every pixel of the level lies in the content
\* region of exactly one tile written for that level.
C10_TilesCoverLevel ==
    (img.width >= 1 /\ img.height >= 1 /\ self.tile_size >= 1) =>
        /\ \A p \in runLevels :
              p.level = crop.level =>
                  /\ crop.box[1] < crop.box[3]
                  /\ crop.box[2] < crop.box[4]
                  /\ crop.box[1] <= crop.col * self.tile_size
                  /\ crop.box[2] <= crop.row * self.tile_size
                  /\ crop.box[3] >= Min((crop.col + 1) * self.tile_size, p.width)
                  /\ crop.box[4] >= Min((crop.row + 1) * self.tile_size, p.height)
        /\ (pc = "tile" /\ ~MoreTiles) =>
              \A x \in 0..(lvl.level_width - 1), y \in 0..(lvl.level_height - 1) :
                  Cardinality({ t \in runTiles :
                                  /\ t[1] = level
                                  /\ InContent(t, x, y, lvl.level_width,
                                               lvl.level_height) }) = 1

\* C10's case: a level of at least 2 x 2 tiles, with overlap, just completed,
\* its last column narrower than a tile.
C10_Witness ==
    /\ pc = "tile"
    /\ ~MoreTiles
    /\ lvl.cols >= 2
    /\ lvl.rows >= 2
    /\ self.overlap >= 1
    /\ self.tile_size >= 2
    /\ lvl.level_width % self.tile_size # 0
    /\ Cardinality({ t \in runTiles : t[1] = level }) = lvl.cols * lvl.rows

\* C2: when a tile write fails, the run ends without having written the
\* descriptor, and no descriptor is on disk afterwards, whatever runs were made
\* into the same output name before.
C2_TileFailureLeavesNoDescriptor ==
    (pc = "done" /\ error = "tile") => (runDzi = 0 /\ ~fsDzi.present)

\* C4: after a run that returned True, the directory of every level
\* 0..max_level holds exactly the tiles of that level's grid, whatever runs
\* were made into the same output name before.
C4_ExactlyTheGridOnDisk ==
    result = "True" =>
        \A l \in 0..self.max_level : { t \in fsTiles : t[1] = l } = GridOf(l)

\* The percentage t (in tenths) is a / b * 100 to the nearest tenth.
IsPercentOf(t, a, b) == 2 * (t * b - 1000 * a) <= b /\ 2 * (1000 * a - t * b) <= b

\* C7: given a descriptor that parses, its tiles folder and a readable
\* reference image, compare_dimensions ends normally with the verdict "match"
\* when the declared and the true sizes are equal, and otherwise with the
\* verdict "mismatch" and the percentage of the reference area the declared
\* area is (25.0 for 1000 x 1000 against 2000 x 2000).
C7_VerdictFollowsDimensions ==
    (/\ cpc = "done"
     /\ cin.dzi.state = "parsed"
     /\ cin.tiles.exists
     /\ cin.ref.state = "readable")
    => /\ craised = "none"
       /\ IF cin.dzi.Width = cin.ref.width /\ cin.dzi.Height = cin.ref.height
            THEN verdict = "match"
            ELSE /\ verdict = "mismatch"
                 /\ IsPercentOf(coverage, cin.dzi.Width * cin.dzi.Height,
                                cin.ref.width * cin.ref.height)
       /\ (cin.dzi = ScenarioCDzi /\ cin.ref = ScenarioCRef)
             => (verdict = "mismatch" /\ coverage = 250)

\* C9: compare_dimensions prints a verdict only when diagnose_dzi returned the
\* declared size and check_original_image returned the true size; when
\* diagnose_dzi returns and the reference image exists but cannot be read, it
\* prints no verdict and ends without an exception.
C9_NoVerdictWithoutBothSizes ==
    (cpc = "done" /\ DiagnoseOutcome(cin).how = "return") =>
        /\ verdict # "none" => (dzi_dims.tag = "pair" /\ orig_dims.tag = "pair")
        /\ cin.ref.state = "unreadable" => (verdict = "none" /\ craised = "none")
====
